---- MODULE Spec2Model ----
(***************************************************************************)
(* Model of the to-do backend: the todos table (models/todo.py), the       *)
(* request schemas (schemas/todo.py), TodoService                          *)
(* (services/todo_service.py) and the HTTP handlers of main.py.            *)
(*                                                                         *)
(* Representation                                                          *)
(*   - a Python Optional value is a set with at most one element:          *)
(*     None is {} and a value v is {v};                                    *)
(*   - a string is a sequence of one-character strings;                    *)
(*   - a datetime is <<year, month, day, second of the day>>;              *)
(*   - a request payload is a record whose DOMAIN is the set of fields     *)
(*     the request supplies (model_fields_set), each an Optional value;    *)
(*   - sessions holds, for every request in progress, the Session of       *)
(*     get_db: the position of the request in TodoService.mark_complete    *)
(*     and the Todo object the session has loaded, or its position in      *)
(*     register (api/routes/auth.py) and the email it registers;           *)
(*   - users is the users table (models/user.py);                          *)
(*   - the database is SQLite (database.py falls back to it and            *)
(*     _build_filters is written for it): NULL compares as unknown,        *)
(*     LIKE is case-insensitive with the wildcards % and _, NULL sorts     *)
(*     first in ascending order, a new rowid is max(rowid) + 1.            *)
(***************************************************************************)
EXTENDS Integers, Sequences, FiniteSets, TLC

VARIABLES todos, now, ret, sessions, users

vars == <<todos, now, ret, sessions, users>>

\* ------------------------------------------------------------------------
\* Optional values
\* ------------------------------------------------------------------------
None == {}

Some(v) == {v}

Just(x) == CHOOSE v \in x : TRUE

\* ------------------------------------------------------------------------
\* Strings
\* ------------------------------------------------------------------------
\* str.lower() / SQLite lower(): ASCII letters of the modelled alphabet
Lower(c) ==
  CASE c = "A" -> "a"
    [] c = "B" -> "b"
    [] OTHER -> c

LowerStr(s) == [i \in 1..Len(s) |-> Lower(s[i])]

\* code point of the characters of the modelled alphabet
Ord(c) ==
  CASE c = " " -> 32
    [] c = "\"" -> 34
    [] c = "%" -> 37
    [] c = "," -> 44
    [] c = "-" -> 45
    [] c = "A" -> 65
    [] c = "B" -> 66
    [] c = "[" -> 91
    [] c = "]" -> 93
    [] c = "_" -> 95
    [] c = "a" -> 97
    [] c = "b" -> 98
    [] OTHER -> 0

\* str.isalnum() on the modelled alphabet
IsAlnum(c) == c \in {"a", "b", "A", "B"}

\* SQLite BINARY collation: s < t
RECURSIVE StrLess(_, _)
StrLess(s, t) ==
  IF t = <<>> THEN FALSE
  ELSE IF s = <<>> THEN TRUE
  ELSE IF Ord(s[1]) # Ord(t[1]) THEN Ord(s[1]) < Ord(t[1])
  ELSE StrLess(Tail(s), Tail(t))

\* SQLite LIKE: % matches any run of characters, _ any one character,
\* letters match without regard to case
RECURSIVE Like(_, _)
Like(s, pat) ==
  IF pat = <<>> THEN s = <<>>
  ELSE IF pat[1] = "%"
    THEN Like(s, Tail(pat)) \/ (s # <<>> /\ Like(Tail(s), pat))
  ELSE IF s = <<>> THEN FALSE
  ELSE IF pat[1] = "_" THEN Like(Tail(s), Tail(pat))
  ELSE Lower(s[1]) = Lower(pat[1]) /\ Like(Tail(s), Tail(pat))

\* json.dumps of a list of strings, as the JSON column stores it
RECURSIVE JsonItems(_)
JsonItems(l) ==
  IF l = <<>> THEN <<>>
  ELSE <<"\"">> \o l[1] \o <<"\"">>
       \o (IF Len(l) > 1 THEN <<",", " ">> ELSE <<>>) \o JsonItems(Tail(l))

JsonDumps(l) == <<"[">> \o JsonItems(l) \o <<"]">>

\* ------------------------------------------------------------------------
\* datetime
\* ------------------------------------------------------------------------
IsLeap(y) == y % 4 = 0 /\ (y % 100 # 0 \/ y % 400 = 0)

DaysInMonth(y, m) ==
  IF m = 2 THEN (IF IsLeap(y) THEN 29 ELSE 28)
  ELSE <<31, 28, 31, 30, 31, 30, 31, 31, 30, 31, 30, 31>>[m]

ValidDate(dt) ==
  /\ Len(dt) = 4
  /\ dt[2] \in 1..12
  /\ dt[3] \in 1..DaysInMonth(dt[1], dt[2])

\* datetime.__lt__
DtLess(a, b) ==
  \/ a[1] < b[1]
  \/ a[1] = b[1] /\ a[2] < b[2]
  \/ a[1] = b[1] /\ a[2] = b[2] /\ a[3] < b[3]
  \/ a[1] = b[1] /\ a[2] = b[2] /\ a[3] = b[3] /\ a[4] < b[4]

DtLeq(a, b) == a = b \/ DtLess(a, b)

NextDay(dt) ==
  IF dt[3] < DaysInMonth(dt[1], dt[2]) THEN <<dt[1], dt[2], dt[3] + 1, dt[4]>>
  ELSE IF dt[2] < 12 THEN <<dt[1], dt[2] + 1, 1, dt[4]>>
  ELSE <<dt[1] + 1, 1, 1, dt[4]>>

\* dt + timedelta(days=n)
RECURSIVE AddDays(_, _)
AddDays(dt, n) == IF n = 0 THEN dt ELSE AddDays(NextDay(dt), n - 1)

\* dt + timedelta(seconds=n)
AddSeconds(dt, n) ==
  LET total == dt[4] + n
      d == AddDays(dt, total \div 86400)
  IN <<d[1], d[2], d[3], total % 86400>>

\* ------------------------------------------------------------------------
\* schemas/todo.py
\* ------------------------------------------------------------------------
TitleMaxLen == 500

DescriptionMaxLen == 5000

MaxTags == 10

TagMaxLen == 50

Priorities == {"low", "medium", "high"}

Recurrences == {"none", "daily", "weekly", "monthly"}

\* the value pydantic sees for a field: the supplied one, else the default
Field(p, f, default) == IF f \in DOMAIN p THEN p[f] ELSE default

Range(l) == {l[i] : i \in 1..Len(l)}

\* validate_tags without the check for duplicates
validate_tags_allowing_duplicates(v) ==
  \/ v = None
  \/ LET l == Just(v)
     IN /\ Len(l) <= MaxTags
        /\ \A i \in 1..Len(l) :
             /\ Len(l[i]) <= TagMaxLen
             /\ \A k \in 1..Len(l[i]) :
                  IsAlnum(l[i][k]) \/ l[i][k] \in {" ", "-", "_"}

\* validate_tags (the same body in TodoCreate and TodoUpdate)
validate_tags(v) ==
  \/ v = None
  \/ LET l == Just(v)
     IN /\ Len(l) <= MaxTags
        /\ Len(l) = Cardinality(Range(l))
        /\ \A i \in 1..Len(l) :
             /\ Len(l[i]) <= TagMaxLen
             /\ \A k \in 1..Len(l[i]) :
                  IsAlnum(l[i][k]) \/ l[i][k] \in {" ", "-", "_"}

\* validate_recurrence_requires_due_date: called for a supplied recurrence
\* only; info.data holds the due_date of the same payload (None when the
\* payload does not supply one)
validate_recurrence_requires_due_date(v, data_due_date) ==
  (v # None /\ Just(v) # "none") => data_due_date # None

TodoCreateValid(p) ==
  /\ "title" \in DOMAIN p
  /\ p.title # None
  /\ Len(Just(p.title)) >= 1
  /\ Len(Just(p.title)) <= TitleMaxLen
  /\ "description" \in DOMAIN p =>
       (p.description = None \/ Len(Just(p.description)) <= DescriptionMaxLen)
  /\ "priority" \in DOMAIN p => (p.priority = None \/ Just(p.priority) \in Priorities)
  /\ "tags" \in DOMAIN p => validate_tags(p.tags)
  /\ "recurrence" \in DOMAIN p =>
       /\ p.recurrence = None \/ Just(p.recurrence) \in Recurrences
       /\ validate_recurrence_requires_due_date(p.recurrence, Field(p, "due_date", None))

TodoUpdateValid(p) ==
  /\ "title" \in DOMAIN p =>
       (p.title = None \/ (Len(Just(p.title)) >= 1 /\ Len(Just(p.title)) <= TitleMaxLen))
  /\ "description" \in DOMAIN p =>
       (p.description = None \/ Len(Just(p.description)) <= DescriptionMaxLen)
  /\ "priority" \in DOMAIN p => (p.priority = None \/ Just(p.priority) \in Priorities)
  /\ "tags" \in DOMAIN p => validate_tags(p.tags)
  /\ "recurrence" \in DOMAIN p =>
       /\ p.recurrence = None \/ Just(p.recurrence) \in Recurrences
       /\ validate_recurrence_requires_due_date(p.recurrence, Field(p, "due_date", None))

\* TodoResponse(**response_data): completed is a required bool, the other
\* nullable columns are Optional
TodoResponseValid(t) == t.completed # None

\* ------------------------------------------------------------------------
\* main.py: response conversion
\* ------------------------------------------------------------------------
\* _calculate_overdue with "<=" in place of "<"
_calculate_overdue_inclusive(todo, utcnow) ==
  IF todo.due_date = None \/ todo.completed = Some(TRUE) THEN FALSE
  ELSE DtLeq(Just(todo.due_date), utcnow)

\* _calculate_overdue (main.py and TodoService carry the same body);
\* None and False are both falsy for todo.completed
_calculate_overdue(todo, utcnow) ==
  IF todo.due_date = None \/ todo.completed = Some(TRUE) THEN FALSE
  ELSE DtLess(Just(todo.due_date), utcnow)

_todo_to_response(todo, utcnow) ==
  [id |-> todo.id, user_id |-> todo.user_id, title |-> todo.title,
   description |-> todo.description, completed |-> todo.completed,
   priority |-> todo.priority, tags |-> todo.tags, due_date |-> todo.due_date,
   recurrence |-> todo.recurrence, created_at |-> todo.created_at,
   updated_at |-> todo.updated_at,
   overdue |-> _calculate_overdue(todo, utcnow)]

Responses(rows, utcnow) == [i \in 1..Len(rows) |-> _todo_to_response(rows[i], utcnow)]

\* ------------------------------------------------------------------------
\* services/todo_service.py: queries
\* ------------------------------------------------------------------------
\* _apply_user_filter: the handlers always construct the service with the
\* authenticated user's id, so user_id is never None here
\* _apply_user_filter as it behaves for user_id None: no owner condition
_apply_user_filter_unscoped(query, user_id) == query

_apply_user_filter(query, user_id) == {t \in query : t.user_id = user_id}

\* Python truthiness of an Optional[str]: None and "" are falsy
Truthy(x) == x # None /\ Just(x) # <<>>

\* _build_filters: the list of conditions, one per supplied criterion
_build_filters(search, status, priority, due_before, due_after, tag) ==
  (IF Truthy(search) THEN <<[kind |-> "search", arg |-> Just(search)]>> ELSE <<>>)
  \o (IF status = Some("completed") THEN <<[kind |-> "completed", arg |-> TRUE]>>
      ELSE IF status = Some("pending") THEN <<[kind |-> "completed", arg |-> FALSE]>>
      ELSE <<>>)
  \* priority.lower() leaves the values the Query pattern admits as they are
  \o (IF priority # None THEN <<[kind |-> "priority", arg |-> Just(priority)]>> ELSE <<>>)
  \o (IF due_before # None THEN <<[kind |-> "due_before", arg |-> Just(due_before)]>> ELSE <<>>)
  \o (IF due_after # None THEN <<[kind |-> "due_after", arg |-> Just(due_after)]>> ELSE <<>>)
  \o (IF Truthy(tag) THEN <<[kind |-> "tag", arg |-> Just(tag)]>> ELSE <<>>)

\* column.ilike('%arg%'): lower(column) LIKE lower('%arg%'), unknown on NULL
Ilike(col, arg) ==
  col # None /\ Like(LowerStr(Just(col)), LowerStr(<<"%">> \o arg \o <<"%">>))

\* Todo.tags.like('%"tag"%') on the JSON text of the column; a Python None
\* is stored as SQL NULL or as the JSON text null, neither holds a quote
TagsLike(tags, arg) ==
  tags # None /\ Like(JsonDumps(Just(tags)), <<"%", "\"">> \o arg \o <<"\"", "%">>)

\* the conditions with "<" in place of "<=" for due_before
Holds_exclusive_due_before(cond, t) ==
  CASE cond.kind = "search" ->
         Ilike(Some(t.title), cond.arg) \/ Ilike(t.description, cond.arg)
    [] cond.kind = "completed" -> t.completed = Some(cond.arg)
    [] cond.kind = "priority" -> t.priority = Some(cond.arg)
    [] cond.kind = "due_before" ->
         t.due_date # None /\ DtLess(Just(t.due_date), cond.arg)
    [] cond.kind = "due_after" ->
         t.due_date # None /\ DtLeq(cond.arg, Just(t.due_date))
    [] cond.kind = "tag" -> TagsLike(t.tags, cond.arg)

\* whether the WHERE clause built for one condition is true (not false and
\* not unknown) on a row
Holds(cond, t) ==
  CASE cond.kind = "search" ->
         Ilike(Some(t.title), cond.arg) \/ Ilike(t.description, cond.arg)
    [] cond.kind = "completed" -> t.completed = Some(cond.arg)
    [] cond.kind = "priority" -> t.priority = Some(cond.arg)
    [] cond.kind = "due_before" ->
         t.due_date # None /\ DtLeq(Just(t.due_date), cond.arg)
    [] cond.kind = "due_after" ->
         t.due_date # None /\ DtLeq(cond.arg, Just(t.due_date))
    [] cond.kind = "tag" -> TagsLike(t.tags, cond.arg)

\* query.filter(and_(*conditions))
FilterAll(query, conditions) ==
  {t \in query : \A i \in 1..Len(conditions) : Holds(conditions[i], t)}

\* the CASE expression of _apply_sort
PriorityRank(priority) ==
  IF priority = Some("high") THEN 1
  ELSE IF priority = Some("medium") THEN 2
  ELSE IF priority = Some("low") THEN 3
  ELSE 4

\* SQLite ordering of a nullable datetime / text column: NULL is smallest
DateKeyLess(a, b) ==
  IF a = None THEN b # None
  ELSE b # None /\ DtLess(Just(a), Just(b))

\* _apply_sort with .desc() on the priority CASE in the descending branch
SortsBefore_desc_inverts_priority(a, b, sort_by, sort_order) ==
  LET asc == sort_order # None /\ Just(sort_order) = "asc"
  IN IF sort_by = Some("priority")
       THEN (IF asc THEN PriorityRank(a.priority) < PriorityRank(b.priority)
             ELSE PriorityRank(b.priority) < PriorityRank(a.priority))
     ELSE IF sort_by = Some("due_date")
       THEN (IF asc THEN DateKeyLess(a.due_date, b.due_date)
             ELSE DateKeyLess(b.due_date, a.due_date))
     ELSE IF sort_by = Some("title")
       THEN (IF asc THEN StrLess(a.title, b.title) ELSE StrLess(b.title, a.title))
     ELSE (IF asc THEN DtLess(a.created_at, b.created_at)
           ELSE DtLess(b.created_at, a.created_at))

\* _apply_sort: whether row a must come before row b in the result
SortsBefore(a, b, sort_by, sort_order) ==
  LET asc == sort_order # None /\ Just(sort_order) = "asc"
  IN IF sort_by = Some("priority")
       THEN PriorityRank(a.priority) < PriorityRank(b.priority)
     ELSE IF sort_by = Some("due_date")
       THEN (IF asc THEN DateKeyLess(a.due_date, b.due_date)
             ELSE DateKeyLess(b.due_date, a.due_date))
     ELSE IF sort_by = Some("title")
       THEN (IF asc THEN StrLess(a.title, b.title) ELSE StrLess(b.title, a.title))
     ELSE (IF asc THEN DtLess(a.created_at, b.created_at)
           ELSE DtLess(b.created_at, a.created_at))

\* the orders query.order_by(...).all() may return: every arrangement of
\* the rows that respects the sort key (SQL leaves ties unordered)
_apply_sort(query, sort_by, sort_order) ==
  {l \in [1..Cardinality(query) -> query] :
     /\ \A i, j \in 1..Cardinality(query) : i # j => l[i] # l[j]
     /\ \A i, j \in 1..Cardinality(query) :
          i < j => ~SortsBefore(l[j], l[i], sort_by, sort_order)}

\* get_all: the result lists the call may return
get_all(table, user_id, c) ==
  _apply_sort(
    FilterAll(_apply_user_filter(table, user_id),
              _build_filters(c.search, c.status, c.priority,
                             c.due_before, c.due_after, c.tag)),
    c.sort_by, c.sort_order)

\* get_by_id: the set holding the row, or the empty set for None
get_by_id(table, user_id, todo_id) ==
  {t \in _apply_user_filter(table, user_id) : t.id = todo_id}

\* get_todos_due_soon with "<" in place of "<=" for the threshold
get_todos_due_soon_exclusive_threshold(table, user_id, hours, utcnow) ==
  LET due_threshold == AddSeconds(utcnow, hours * 3600)
  IN {t \in _apply_user_filter(table, user_id) :
        /\ t.completed = Some(FALSE)
        /\ t.due_date # None
        /\ DtLess(Just(t.due_date), due_threshold)
        /\ DtLeq(utcnow, Just(t.due_date))}

\* get_todos_due_soon: the rows selected (returned in any order)
get_todos_due_soon(table, user_id, hours, utcnow) ==
  LET due_threshold == AddSeconds(utcnow, hours * 3600)
  IN {t \in _apply_user_filter(table, user_id) :
        /\ t.completed = Some(FALSE)
        /\ t.due_date # None
        /\ DtLeq(Just(t.due_date), due_threshold)
        /\ DtLeq(utcnow, Just(t.due_date))}

Arrangements(S) ==
  {l \in [1..Cardinality(S) -> S] : \A i, j \in 1..Cardinality(S) : i # j => l[i] # l[j]}

\* ------------------------------------------------------------------------
\* services/todo_service.py: recurrence
\* ------------------------------------------------------------------------
\* the monthly target with February taken as 29 days every fourth year
MonthlyTarget_every_fourth_year(due_date) ==
  LET year == IF due_date[2] + 1 > 12 THEN due_date[1] + 1 ELSE due_date[1]
      month == IF due_date[2] + 1 > 12 THEN 1 ELSE due_date[2] + 1
      max_day == IF month \in {4, 6, 9, 11} THEN 30
                 ELSE IF month = 2 THEN (IF year % 4 = 0 THEN 29 ELSE 28)
                 ELSE 31
      day == IF due_date[3] > max_day THEN max_day ELSE due_date[3]
  IN <<year, month, day, due_date[4]>>

\* the year, month and day _create_next_instance passes to
\* due_date.replace for a monthly task
MonthlyTarget(due_date) ==
  LET year == IF due_date[2] + 1 > 12 THEN due_date[1] + 1 ELSE due_date[1]
      month == IF due_date[2] + 1 > 12 THEN 1 ELSE due_date[2] + 1
      max_day == IF month \in {4, 6, 9, 11} THEN 30
                 ELSE IF month = 2
                   THEN (IF (year % 400 = 0) \/ (year % 100 # 0 /\ year % 4 = 0)
                         THEN 29 ELSE 28)
                 ELSE 31
      day == IF due_date[3] > max_day THEN max_day ELSE due_date[3]
  IN <<year, month, day, due_date[4]>>

\* next_due_date of _create_next_instance; None stands for the final
\* else branch, which returns without creating a task
next_due_date(due_date, recurrence) ==
  IF recurrence = "daily" THEN Some(AddDays(due_date, 1))
  ELSE IF recurrence = "weekly" THEN Some(AddDays(due_date, 7))
  ELSE IF recurrence = "monthly" THEN Some(MonthlyTarget(due_date))
  ELSE None

\* datetime.replace raises ValueError for a day the month does not have
ReplaceRaises(due_date, recurrence) ==
  recurrence = "monthly" /\ ~ValidDate(MonthlyTarget(due_date))

\* rowid assigned by the INTEGER PRIMARY KEY column
NewId(table) ==
  IF table = {} THEN 1
  ELSE (CHOOSE m \in {t.id : t \in table} : \A t \in table : t.id <= m) + 1

\* _create_next_instance without priority=todo.priority
_create_next_instance_default_priority(table, todo, utcnow) ==
  [id |-> NewId(table), user_id |-> todo.user_id, title |-> todo.title,
   description |-> todo.description, completed |-> Some(FALSE),
   created_at |-> utcnow, updated_at |-> utcnow,
   priority |-> Some("medium"), tags |-> todo.tags,
   due_date |-> next_due_date(Just(todo.due_date), Just(todo.recurrence)),
   recurrence |-> todo.recurrence]

\* the row _create_next_instance inserts for a task
_create_next_instance(table, todo, utcnow) ==
  [id |-> NewId(table), user_id |-> todo.user_id, title |-> todo.title,
   description |-> todo.description, completed |-> Some(FALSE),
   created_at |-> utcnow, updated_at |-> utcnow,
   priority |-> todo.priority, tags |-> todo.tags,
   due_date |-> next_due_date(Just(todo.due_date), Just(todo.recurrence)),
   recurrence |-> todo.recurrence]

\* mark_complete without the early return of line 206
AlreadyCompleted_never(todo) == FALSE

\* mark_complete with the early return of line 206 taken only for a task
\* that has no due date
AlreadyCompleted_unless_due(todo) ==
  /\ todo.completed = Some(TRUE)
  /\ todo.due_date = None

\* mark_complete line 206: "if todo.completed" (None is falsy)
AlreadyCompleted(todo) == todo.completed = Some(TRUE)

\* mark_complete line 215 without "and todo.due_date"
Recurs_ignoring_due_date(todo) ==
  /\ todo.recurrence # None
  /\ Just(todo.recurrence) # "none"

\* mark_complete line 215: the task spawns a next instance
Recurs(todo) ==
  /\ todo.recurrence # None
  /\ Just(todo.recurrence) # "none"
  /\ todo.due_date # None

\* ------------------------------------------------------------------------
\* services/todo_service.py: writes
\* ------------------------------------------------------------------------
\* TodoService.create taking the owner from the payload when it names one
create_owner_from_payload(table, user_id, todo_data, utcnow) ==
  [id |-> NewId(table),
   user_id |-> Just(Field(todo_data, "user_id", Some(user_id))),
   title |-> Just(todo_data.title),
   description |-> Field(todo_data, "description", None),
   completed |-> Some(FALSE),
   created_at |-> utcnow, updated_at |-> utcnow,
   priority |-> IF Field(todo_data, "priority", Some("medium")) = None
                THEN Some("medium") ELSE Field(todo_data, "priority", Some("medium")),
   tags |-> IF Field(todo_data, "tags", None) = None
            THEN Some(<<>>) ELSE todo_data.tags,
   due_date |-> Field(todo_data, "due_date", None),
   recurrence |-> IF Field(todo_data, "recurrence", Some("none")) = None
                  THEN Some("none") ELSE Field(todo_data, "recurrence", Some("none"))]

\* the row TodoService.create inserts
create(table, user_id, todo_data, utcnow) ==
  [id |-> NewId(table), user_id |-> user_id, title |-> Just(todo_data.title),
   description |-> Field(todo_data, "description", None),
   completed |-> Some(FALSE),
   created_at |-> utcnow, updated_at |-> utcnow,
   priority |-> IF Field(todo_data, "priority", Some("medium")) = None
                THEN Some("medium") ELSE Field(todo_data, "priority", Some("medium")),
   tags |-> IF Field(todo_data, "tags", None) = None
            THEN Some(<<>>) ELSE todo_data.tags,
   due_date |-> Field(todo_data, "due_date", None),
   recurrence |-> IF Field(todo_data, "recurrence", Some("none")) = None
                  THEN Some("none") ELSE Field(todo_data, "recurrence", Some("none"))]

\* the fields TodoUpdate declares: model_dump holds no other key, a key of
\* the request body that is no field of the schema is ignored
TodoUpdateFields ==
  {"title", "description", "completed", "priority", "tags", "due_date", "recurrence"}

\* the setattr loop over model_dump() without exclude_unset: a field the
\* payload does not supply is set to its default, None
SetAttrs_all_fields(todo, update_data) ==
  [f \in DOMAIN todo |->
     IF f = "title"
       THEN (IF f \in DOMAIN update_data /\ update_data[f] # None
             THEN Just(update_data[f]) ELSE todo[f])
     ELSE IF f \in TodoUpdateFields
       THEN Field(update_data, f, None)
     ELSE todo[f]]

\* the setattr loop of TodoService.update over model_dump(exclude_unset=True);
\* title is the one NOT NULL column a payload can set, kept as an Optional
\* here until the commit
SetAttrs(todo, update_data) ==
  [f \in DOMAIN todo |->
     IF f \in DOMAIN update_data \cap TodoUpdateFields
       THEN (IF f = "title" /\ update_data[f] # None THEN Just(update_data[f])
             ELSE update_data[f])
       ELSE todo[f]]

\* the UPDATE the commit issues when a column changed: onupdate sets updated_at
Flush(old, new, utcnow) ==
  IF new = old THEN old ELSE [new EXCEPT !.updated_at = utcnow]

\* ------------------------------------------------------------------------
\* main.py: the handlers, one action each.  ret records the last request:
\* the handler, the authenticated user, the path id, the payload or query,
\* the HTTP status, the rows the service returned (body), their response
\* conversions (resp) and, for mark_complete, the next task (next), and the
\* value datetime.utcnow() had (at).
\* ------------------------------------------------------------------------
MaxId == 2

NoArgs == [none |-> TRUE]

\* ret for a request whose commits had the outcomes listed in commits
\* (TRUE: committed, FALSE: the commit raised), in the order they ran
ReplyDb(op, user, todo_id, args, status, body, next, commits) ==
  [op |-> op, user |-> user, todo_id |-> todo_id, args |-> args,
   status |-> status, body |-> body, next |-> next, at |-> now,
   commits |-> commits,
   resp |-> IF status = 200 \/ status = 201 THEN Responses(body, now) ELSE <<>>,
   next_resp |-> IF status = 200 \/ status = 201 THEN Responses(next, now) ELSE <<>>]

\* ret for a request that reached no commit
Reply(op, user, todo_id, args, status, body, next) ==
  ReplyDb(op, user, todo_id, args, status, body, next, <<>>)

\* Session.commit that leaves the flushed rows in the table when it raises
Commit_without_rollback(before, after, commit_ok) == after

\* Session.commit: the pending rows are written in one transaction, or the
\* commit raises, the transaction is rolled back and the table is as before
Commit(before, after, commit_ok) == IF commit_ok THEN after ELSE before

\* mark_complete without its own commit: the completion and the insert of
\* the next instance are written by the one commit of _create_next_instance
NextInstanceCommit_one_transaction(table, committed, next_task, next_commit_ok) ==
  Commit(table, committed \cup {next_task}, next_commit_ok)

\* the commit of _create_next_instance, the second of a completion: table
\* is the table at the start of the request, committed the table after the
\* commit of the completion
NextInstanceCommit(table, committed, next_task, next_commit_ok) ==
  Commit(committed, committed \cup {next_task}, next_commit_ok)

\* POST /api/v1/todos; commit_ok: whether the commit of TodoService.create
\* goes through.  An exception of the commit is no ValueError: it leaves
\* the handler and is answered 500
create_todo_db(u, todo_data, commit_ok) ==
  /\ UNCHANGED <<now, sessions, users>>
  /\ IF ~TodoCreateValid(todo_data)
       THEN /\ ret' = Reply("create_todo", u, 0, todo_data, 422, <<>>, <<>>)
            /\ UNCHANGED todos
       ELSE /\ NewId(todos) <= MaxId
            /\ LET todo == create(todos, u, todo_data, now)
               IN /\ todos' = Commit(todos, todos \cup {todo}, commit_ok)
                  /\ ret' = IF commit_ok
                              THEN ReplyDb("create_todo", u, 0, todo_data, 201,
                                           <<todo>>, <<>>, <<TRUE>>)
                              ELSE ReplyDb("create_todo", u, 0, todo_data, 500,
                                           <<>>, <<>>, <<FALSE>>)

create_todo(u, todo_data) == create_todo_db(u, todo_data, TRUE)

\* PUT /api/v1/todos/{todo_id}
update_todo_db(u, todo_id, todo_data, commit_ok) ==
  /\ UNCHANGED <<now, sessions, users>>
  /\ IF ~TodoUpdateValid(todo_data)
       THEN /\ ret' = Reply("update_todo", u, todo_id, todo_data, 422, <<>>, <<>>)
            /\ UNCHANGED todos
     ELSE IF get_by_id(todos, u, todo_id) = {}
       THEN /\ ret' = Reply("update_todo", u, todo_id, todo_data, 404, <<>>, <<>>)
            /\ UNCHANGED todos
     ELSE LET old == Just(get_by_id(todos, u, todo_id))
              \* NOT NULL constraint on title: the commit raises IntegrityError
              ok == commit_ok /\ ~("title" \in DOMAIN todo_data /\ todo_data.title = None)
              todo == Flush(old, SetAttrs(old, todo_data), now)
          IN /\ todos' = Commit(todos, (todos \ {old}) \cup {todo}, ok)
             /\ ret' = IF ~ok
                         THEN ReplyDb("update_todo", u, todo_id, todo_data, 500,
                                      <<>>, <<>>, <<FALSE>>)
                       \* a failing TodoResponse is a ValueError: caught, answered 400
                       ELSE ReplyDb("update_todo", u, todo_id, todo_data,
                                    IF TodoResponseValid(todo) THEN 200 ELSE 400,
                                    <<todo>>, <<>>, <<TRUE>>)

update_todo(u, todo_id, todo_data) == update_todo_db(u, todo_id, todo_data, TRUE)

\* DELETE /api/v1/todos/{todo_id}
delete_todo_db(u, todo_id, commit_ok) ==
  /\ UNCHANGED <<now, sessions, users>>
  /\ IF get_by_id(todos, u, todo_id) = {}
       THEN /\ ret' = Reply("delete_todo", u, todo_id, NoArgs, 404, <<>>, <<>>)
            /\ UNCHANGED todos
       ELSE /\ todos' = Commit(todos, todos \ get_by_id(todos, u, todo_id), commit_ok)
            /\ ret' = ReplyDb("delete_todo", u, todo_id, NoArgs,
                              IF commit_ok THEN 200 ELSE 500, <<>>, <<>>,
                              <<commit_ok>>)

delete_todo(u, todo_id) == delete_todo_db(u, todo_id, TRUE)

\* PATCH /api/v1/todos/{todo_id}/complete; commit_ok: the commit of the
\* completion in mark_complete, next_commit_ok: the commit of the insert in
\* _create_next_instance
mark_todo_complete_db(u, todo_id, commit_ok, next_commit_ok) ==
  /\ UNCHANGED <<now, sessions, users>>
  /\ IF get_by_id(todos, u, todo_id) = {}
       THEN /\ ret' = Reply("mark_todo_complete", u, todo_id, NoArgs, 404, <<>>, <<>>)
            /\ UNCHANGED todos
     ELSE LET old == Just(get_by_id(todos, u, todo_id))
              todo == [old EXCEPT !.completed = Some(TRUE), !.updated_at = now]
              committed == Commit(todos, (todos \ {old}) \cup {todo}, commit_ok)
          IN IF AlreadyCompleted(old)
               \* already completed
               THEN /\ ret' = Reply("mark_todo_complete", u, todo_id, NoArgs, 200,
                                    <<old>>, <<>>)
                    /\ UNCHANGED todos
             ELSE IF ~commit_ok
               THEN /\ todos' = committed
                    /\ ret' = ReplyDb("mark_todo_complete", u, todo_id, NoArgs, 500,
                                      <<>>, <<>>, <<FALSE>>)
             ELSE IF ~Recurs(todo)
               THEN /\ todos' = committed
                    /\ ret' = ReplyDb("mark_todo_complete", u, todo_id, NoArgs, 200,
                                      <<todo>>, <<>>, <<TRUE>>)
             \* _create_next_instance raises: a TypeError or AttributeError on a
             \* due_date of None (which line 215 keeps out), a ValueError of
             \* replace; the completion is committed, the error is not caught
             ELSE IF \/ todo.due_date = None
                     \/ ReplaceRaises(Just(todo.due_date), Just(todo.recurrence))
               THEN /\ todos' = committed
                    /\ ret' = ReplyDb("mark_todo_complete", u, todo_id, NoArgs, 500,
                                      <<>>, <<>>, <<TRUE>>)
             ELSE IF next_due_date(Just(todo.due_date), Just(todo.recurrence)) = None
               THEN /\ todos' = committed
                    /\ ret' = ReplyDb("mark_todo_complete", u, todo_id, NoArgs, 200,
                                      <<todo>>, <<>>, <<TRUE>>)
             ELSE /\ NewId(committed) <= MaxId
                  /\ LET next_task == _create_next_instance(committed, todo, now)
                     IN /\ todos' = NextInstanceCommit(todos, committed, next_task,
                                                       next_commit_ok)
                        /\ ret' = IF next_commit_ok
                                    THEN ReplyDb("mark_todo_complete", u, todo_id,
                                                 NoArgs, 200, <<todo>>, <<next_task>>,
                                                 <<TRUE, TRUE>>)
                                    ELSE ReplyDb("mark_todo_complete", u, todo_id,
                                                 NoArgs, 500, <<>>, <<>>,
                                                 <<TRUE, FALSE>>)

mark_todo_complete(u, todo_id) == mark_todo_complete_db(u, todo_id, TRUE, TRUE)

\* ------------------------------------------------------------------------
\* PATCH /api/v1/todos/{todo_id}/complete, statement by statement, for
\* requests that run at the same time: the handlers are plain functions,
\* which FastAPI runs in a thread pool, each with a Session of its own
\* (get_db), and nothing in mark_complete takes a lock.  One action per
\* database round trip: the read of get_by_id, the commit of the
\* completion, the commit of the insert.
\* ------------------------------------------------------------------------
Requests == {1, 2}

\* the largest id the rows that concurrent completions insert can take
RaceMaxId == MaxId + 1

NoSession == [pc |-> "idle", user |-> 0, todo_id |-> 0, todo |-> None]

NoSessions == [r \in Requests |-> NoSession]

\* lines 202-207: get_by_id and the two early returns
mark_complete_read(r, u, todo_id) ==
  /\ sessions[r].pc = "idle"
  /\ UNCHANGED <<todos, now, users>>
  /\ LET found == get_by_id(todos, u, todo_id)
     IN IF found = {}
          THEN /\ ret' = Reply("mark_todo_complete", u, todo_id, NoArgs, 404, <<>>, <<>>)
               /\ UNCHANGED sessions
        ELSE IF AlreadyCompleted(Just(found))
          THEN /\ ret' = Reply("mark_todo_complete", u, todo_id, NoArgs, 200,
                               <<Just(found)>>, <<>>)
               /\ UNCHANGED sessions
        ELSE /\ sessions' = [sessions EXCEPT ![r] =
                               [pc |-> "commit", user |-> u, todo_id |-> todo_id,
                                todo |-> found]]
             /\ UNCHANGED ret

\* lines 210-216: todo.completed = True and the commit, an UPDATE of
\* completed and updated_at on the row with the loaded id, whatever the
\* row holds by now; then the recurrence test on the reloaded row
mark_complete_commit(r) ==
  /\ sessions[r].pc = "commit"
  /\ UNCHANGED <<now, users>>
  /\ LET s == sessions[r]
         current == {t \in todos : t.id = s.todo_id}
     IN IF current = {}
          \* the row is gone: the UPDATE matches no row, StaleDataError
          THEN /\ ret' = ReplyDb("mark_todo_complete", s.user, s.todo_id, NoArgs, 500,
                                 <<>>, <<>>, <<FALSE>>)
               /\ sessions' = [sessions EXCEPT ![r] = NoSession]
               /\ UNCHANGED todos
        ELSE LET old == Just(current)
                 todo == [old EXCEPT !.completed = Some(TRUE), !.updated_at = now]
             IN /\ todos' = (todos \ {old}) \cup {todo}
                /\ IF Recurs(todo)
                     THEN /\ sessions' = [sessions EXCEPT ![r] =
                                            [s EXCEPT !.pc = "insert", !.todo = {todo}]]
                          /\ UNCHANGED ret
                     ELSE /\ sessions' = [sessions EXCEPT ![r] = NoSession]
                          /\ ret' = ReplyDb("mark_todo_complete", s.user, s.todo_id,
                                            NoArgs, 200, <<todo>>, <<>>, <<TRUE>>)

\* lines 216-219 and _create_next_instance: the insert of the next
\* instance, its commit, and the refresh of the completed row
mark_complete_insert(r) ==
  /\ sessions[r].pc = "insert"
  /\ UNCHANGED <<now, users>>
  /\ sessions' = [sessions EXCEPT ![r] = NoSession]
  /\ LET s == sessions[r]
         todo == Just(s.todo)
     IN IF ReplaceRaises(Just(todo.due_date), Just(todo.recurrence))
          THEN /\ ret' = ReplyDb("mark_todo_complete", s.user, s.todo_id, NoArgs, 500,
                                 <<>>, <<>>, <<TRUE>>)
               /\ UNCHANGED todos
        ELSE /\ NewId(todos) <= RaceMaxId
             /\ LET next_task == _create_next_instance(todos, todo, now)
                    refreshed == {t \in todos : t.id = s.todo_id}
                IN /\ todos' = todos \cup {next_task}
                   /\ ret' = IF refreshed = {}
                               THEN ReplyDb("mark_todo_complete", s.user, s.todo_id,
                                            NoArgs, 500, <<>>, <<>>, <<TRUE, TRUE>>)
                               ELSE ReplyDb("mark_todo_complete", s.user, s.todo_id,
                                            NoArgs, 200, <<Just(refreshed)>>,
                                            <<next_task>>, <<TRUE, TRUE>>)

\* GET /api/v1/todos/{todo_id}
get_todo(u, todo_id) ==
  /\ UNCHANGED <<todos, now, sessions, users>>
  /\ LET found == get_by_id(todos, u, todo_id)
     IN ret' = IF found = {}
                 THEN Reply("get_todo", u, todo_id, NoArgs, 404, <<>>, <<>>)
               ELSE IF ~TodoResponseValid(Just(found))
                 THEN Reply("get_todo", u, todo_id, NoArgs, 500, <<>>, <<>>)
               ELSE Reply("get_todo", u, todo_id, NoArgs, 200, <<Just(found)>>, <<>>)

\* the Query(...) patterns of get_todos
QueryValid(c) ==
  /\ c.status = None \/ Just(c.status) \in {"completed", "pending"}
  /\ c.priority = None \/ Just(c.priority) \in Priorities
  /\ c.sort_by = None \/ Just(c.sort_by) \in {"created_at", "due_date", "priority", "title"}
  /\ c.sort_order = None \/ Just(c.sort_order) \in {"asc", "desc"}

\* the Query(...) defaults of get_todos
QueryDefaults(c) ==
  [c EXCEPT !.sort_by = IF c.sort_by = None THEN Some("created_at") ELSE c.sort_by,
            !.sort_order = IF c.sort_order = None THEN Some("desc") ELSE c.sort_order]

\* GET /api/v1/todos
get_todos(u, c) ==
  /\ UNCHANGED <<todos, now, sessions, users>>
  /\ IF ~QueryValid(c)
       THEN ret' = Reply("get_todos", u, 0, c, 422, <<>>, <<>>)
       ELSE \E l \in get_all(todos, u, QueryDefaults(c)) :
              ret' = IF \A i \in 1..Len(l) : TodoResponseValid(l[i])
                       THEN Reply("get_todos", u, 0, c, 200, l, <<>>)
                       ELSE Reply("get_todos", u, 0, c, 500, <<>>, <<>>)

\* TodoService.get_todos_due_soon and the response conversion of
\* GET /api/v1/todos/due-soon (hours is bounded 1..24 by its Query)
due_soon(u, hours) ==
  /\ UNCHANGED <<todos, now, sessions, users>>
  /\ \E l \in Arrangements(get_todos_due_soon(todos, u, hours, now)) :
       ret' = Reply("due_soon", u, 0, [hours |-> hours], 200, l, <<>>)

\* time passes between requests (datetime.utcnow)
Tick(times) ==
  /\ \E t \in times : DtLess(now, t) /\ now' = t
  /\ UNCHANGED <<todos, ret, sessions, users>>

NoRequest == Reply("none", 0, 0, NoArgs, 0, <<>>, <<>>)

\* ------------------------------------------------------------------------
\* Specification Spec: two users issue requests against an empty table
\* ------------------------------------------------------------------------
Users == {1, 2}

\* the ids requests name: those a row can have and one no row has
Ids == 1..(MaxId + 1)

Jan30 == <<2024, 1, 30, 0>>

Jan31 == <<2024, 1, 31, 0>>

Mar10 == <<2024, 3, 10, 28800>>

AnyCriteria ==
  [search |-> None, status |-> None, priority |-> None, due_before |-> None,
   due_after |-> None, tag |-> None, sort_by |-> None, sort_order |-> None]

MonthlyPayload ==
  [title |-> Some(<<"b">>), description |-> Some(<<"a">>), priority |-> Some("high"),
   tags |-> Some(<< <<"a">> >>), due_date |-> Some(Jan31),
   recurrence |-> Some("monthly")]

CreatePayloads == {[title |-> Some(<<"a">>)], MonthlyPayload}

UpdatePayloads == {[title |-> Some(<<"a">>), completed |-> Some(FALSE)]}

Queries ==
  { AnyCriteria,
    [AnyCriteria EXCEPT !.status = Some("pending"), !.priority = Some("high"),
                        !.tag = Some(<<"a">>), !.sort_order = Some("asc")] }

Init ==
  /\ todos = {}
  /\ now = Jan31
  /\ ret = NoRequest
  /\ sessions = NoSessions
  /\ users = {}

Next ==
  \/ \E u \in Users, p \in CreatePayloads : create_todo(u, p)
  \/ \E u \in Users, i \in Ids, p \in UpdatePayloads : update_todo(u, i, p)
  \/ \E u \in Users, i \in Ids : delete_todo(u, i)
  \/ \E u \in Users, i \in Ids : mark_todo_complete(u, i)
  \/ \E u \in Users, i \in Ids : get_todo(u, i)
  \/ \E u \in Users, c \in Queries : get_todos(u, c)
  \/ \E u \in Users : due_soon(u, 1)

Spec == Init /\ [][Next]_vars

\* ------------------------------------------------------------------------
\* Properties of Spec
\* ------------------------------------------------------------------------
\* the reference advance function of the recurrence engine: daily and
\* weekly add days, monthly keeps the day of the month in the following
\* month, clamped to the length of that month
Advance(due_date, recurrence) ==
  IF recurrence = "daily" THEN AddDays(due_date, 1)
  ELSE IF recurrence = "weekly" THEN AddDays(due_date, 7)
  ELSE LET y == IF due_date[2] = 12 THEN due_date[1] + 1 ELSE due_date[1]
           m == IF due_date[2] = 12 THEN 1 ELSE due_date[2] + 1
           last == DaysInMonth(y, m)
       IN <<y, m, IF due_date[3] < last THEN due_date[3] ELSE last, due_date[4]>>

RowIds(table) == {t.id : t \in table}

\* C1: cross-owner isolation.  The rows a list or due-soon request
\* returns all belong to the requesting user, whatever the criteria; and a
\* lookup, update, delete or completion that names a row of another user
\* answers not found and leaves the table as it was.
C1_CrossOwnerIsolation ==
  [][ /\ ret'.op \in {"get_todos", "due_soon", "get_todo"} =>
           \A i \in 1..Len(ret'.body) : ret'.body[i].user_id = ret'.user
      /\ \A t \in todos :
           ( /\ ret'.op \in {"get_todo", "update_todo", "delete_todo",
                             "mark_todo_complete"}
             /\ ret'.todo_id = t.id
             /\ ret'.user # t.user_id
             /\ ret'.status # 422 )
           => (ret'.status = 404 /\ ret'.body = <<>> /\ todos' = todos) ]_vars

\* a list request answered with rows while the table also holds a row of
\* another user that meets the same criteria
C1_Witness ==
  /\ ret.op = "get_todos"
  /\ ret.status = 200
  /\ ret.body # <<>>
  /\ ret.args = AnyCriteria
  /\ \E t \in todos : t.user_id # ret.user

C4_IdempotentCompletion ==
  [][ /\ \A old \in todos :
           ( /\ ret'.op = "mark_todo_complete"
             /\ ret'.todo_id = old.id
             /\ ret'.user = old.user_id
             /\ old.completed = Some(TRUE) )
           => ( /\ todos' = todos
                /\ ret'.status = 200
                /\ ret'.body = <<old>>
                /\ ret'.next = <<>> )
      /\ ( /\ ret.op = "mark_todo_complete"
           /\ ret.status = 200
           /\ ret'.op = "mark_todo_complete"
           /\ ret'.user = ret.user
           /\ ret'.todo_id = ret.todo_id )
         => ( /\ todos' = todos
              /\ ret'.next = <<>>
              /\ ret'.body = ret.body ) ]_vars

\* a second completion of a recurring task: it returns the completed task
\* without a next task while the successor of the first completion is stored
C4_Witness ==
  /\ ret.op = "mark_todo_complete"
  /\ ret.status = 200
  /\ ret.next = <<>>
  /\ ret.body[1].recurrence = Some("monthly")
  /\ ret.body[1].due_date = Some(Jan31)
  /\ Cardinality({t \in todos : t.due_date = Some(<<2024, 2, 29, 0>>)}) = 1

\* ------------------------------------------------------------------------
\* Specification SpecRecur: one user creates, updates and completes tasks
\* with and without a recurrence and a due date
\* ------------------------------------------------------------------------
RecurCreatePayloads ==
  { [title |-> Some(<<"a">>)],
    [title |-> Some(<<"a">>), due_date |-> Some(Mar10), recurrence |-> Some("daily")],
    [title |-> Some(<<"a">>), recurrence |-> Some("weekly")],
    [title |-> Some(<<"a">>), due_date |-> None, recurrence |-> Some("monthly")] }

RecurUpdatePayloads ==
  { [due_date |-> None],
    [recurrence |-> Some("weekly")],
    [due_date |-> Some(Jan31), recurrence |-> Some("weekly")],
    [due_date |-> None, recurrence |-> Some("none")] }

NextRecur ==
  \/ \E p \in RecurCreatePayloads : create_todo(1, p)
  \/ \E i \in Ids, p \in RecurUpdatePayloads : update_todo(1, i, p)
  \/ \E i \in Ids : mark_todo_complete(1, i)
  \/ \E i \in Ids : get_todo(1, i)

SpecRecur == Init /\ [][NextRecur]_vars

\* C2: every stored task whose recurrence is daily, weekly or monthly has
\* a due date, after any sequence of requests whose payloads pass
\* validation.
C2_RecurringHasDueDate ==
  \A t \in todos :
    t.recurrence \in {Some("daily"), Some("weekly"), Some("monthly")}
      => t.due_date # None

\* C18: completing an owned, not completed task whose recurrence is
\* daily, weekly or monthly and whose due date is null marks the task
\* completed, adds no row, and answers with the completed task and no next
\* task, without an error.
C18_DefensiveNoOp ==
  [][ \A old \in todos :
        ( /\ ret'.op = "mark_todo_complete"
          /\ ret'.todo_id = old.id
          /\ ret'.user = old.user_id
          /\ old.completed # Some(TRUE)
          /\ old.recurrence \in {Some("daily"), Some("weekly"), Some("monthly")}
          /\ old.due_date = None )
        => LET done == [old EXCEPT !.completed = Some(TRUE), !.updated_at = ret'.at]
           IN /\ todos' = (todos \ {old}) \cup {done}
              /\ Cardinality(todos') = Cardinality(todos)
              /\ ret'.status = 200
              /\ ret'.body = <<done>>
              /\ ret'.next = <<>> ]_vars

\* a completion answered with a completed daily task that has no due date
\* and with no next task; the table holds that task and nothing else
C18_Witness ==
  /\ ret.op = "mark_todo_complete"
  /\ ret.status = 200
  /\ ret.commits = <<TRUE>>
  /\ ret.next = <<>>
  /\ ret.body[1].recurrence = Some("daily")
  /\ ret.body[1].due_date = None
  /\ ret.body[1].completed = Some(TRUE)
  /\ todos = {ret.body[1]}

\* ------------------------------------------------------------------------
\* Specification SpecOverdue: one user's requests while time passes
\* ------------------------------------------------------------------------
Feb1 == <<2024, 2, 1, 0>>

OverdueTimes == {Jan30, Jan31, Feb1}

OverdueCreatePayloads ==
  { [title |-> Some(<<"a">>)],
    [title |-> Some(<<"a">>), due_date |-> Some(Jan31)] }

OverdueUpdatePayloads == { [completed |-> None] }

InitOverdue ==
  /\ todos = {}
  /\ now = Jan30
  /\ ret = NoRequest
  /\ sessions = NoSessions
  /\ users = {}

NextOverdue ==
  \/ \E p \in OverdueCreatePayloads : create_todo(1, p)
  \/ \E i \in Ids, p \in OverdueUpdatePayloads : update_todo(1, i, p)
  \/ \E i \in Ids : mark_todo_complete(1, i)
  \/ \E i \in Ids : get_todo(1, i)
  \/ get_todos(1, AnyCriteria)
  \/ Tick(OverdueTimes)

SpecOverdue == InitOverdue /\ [][NextOverdue]_vars

\* C6: the overdue flag of every task a request returns is true exactly
\* when the task has a due date, is not completed and the due date lies
\* strictly before the time of the request; the flag is no column of the
\* stored rows and a read writes nothing.
C6_Overdue ==
  [][ /\ Len(ret'.resp) = (IF ret'.status \in {200, 201} THEN Len(ret'.body) ELSE 0)
      /\ \A i \in 1..Len(ret'.resp) :
           ret'.resp[i].overdue =
             ( /\ ret'.body[i].due_date # None
               /\ ret'.body[i].completed = Some(FALSE)
               /\ DtLess(Just(ret'.body[i].due_date), ret'.at) )
      /\ \A i \in 1..Len(ret'.next_resp) :
           ret'.next_resp[i].overdue =
             ( /\ ret'.next[i].due_date # None
               /\ ret'.next[i].completed = Some(FALSE)
               /\ DtLess(Just(ret'.next[i].due_date), ret'.at) )
      /\ \A t \in todos' : "overdue" \notin DOMAIN t
      /\ ret'.op \in {"get_todo", "get_todos", "due_soon"} => todos' = todos ]_vars

\* a read that reports a stored task as overdue
C6_Witness ==
  /\ ret.op = "get_todo"
  /\ ret.status = 200
  /\ ret.resp[1].overdue
  /\ ret.body[1] \in todos
  /\ ret.body[1].due_date = Some(Jan31)
  /\ ret.at = Feb1

\* ------------------------------------------------------------------------
\* Specification SpecAdvance: one recurring task, created with any due
\* date of the years below, is completed, and so are its successors
\* ------------------------------------------------------------------------
AdvanceYears == {1899, 1900, 1999, 2000, 2023, 2024}

AdvanceDates ==
  {dt \in AdvanceYears \X (1..12) \X (1..31) \X {0, 28800} : ValidDate(dt)}

InitAdvance ==
  /\ now = Jan31
  /\ ret = NoRequest
  /\ sessions = NoSessions
  /\ users = {}
  /\ \E dt \in AdvanceDates, r \in {"daily", "weekly", "monthly"} :
       todos = {create({}, 1, [title |-> Some(<<"a">>), due_date |-> Some(dt),
                               recurrence |-> Some(r)], Jan31)}

NextAdvance == \E i \in Ids : mark_todo_complete(1, i)

SpecAdvance == InitAdvance /\ [][NextAdvance]_vars

\* days from 0001-01-01 to the date, in the proleptic Gregorian calendar
Ordinal(dt) ==
  LET y == dt[1] - 1
      before == <<0, 31, 59, 90, 120, 151, 181, 212, 243, 273, 304, 334>>[dt[2]]
      leap == dt[1] % 4 = 0 /\ (dt[1] % 100 # 0 \/ dt[1] % 400 = 0)
  IN 365 * y + (y \div 4) - (y \div 100) + (y \div 400) + before
     + (IF leap /\ dt[2] > 2 THEN 1 ELSE 0) + dt[3]

MaxRows == 3

Mar1 == <<2024, 3, 1, 0>>

Row(id, user_id, title, description, completed, priority, tags, due_date, created_at) ==
  [id |-> id, user_id |-> user_id, title |-> title, description |-> description,
   completed |-> Some(completed), created_at |-> created_at, updated_at |-> Jan31,
   priority |-> priority, tags |-> tags, due_date |-> due_date,
   recurrence |-> Some("none")]

QueryRows ==
  { Row(1, 1, <<"a">>, None, FALSE, Some("high"), Some(<< <<"a">> >>),
        Some(Jan31), Jan30),
    Row(2, 1, <<"b">>, None, TRUE, Some("high"), Some(<< <<"A">> >>),
        None, Jan30),
    Row(3, 1, <<"B">>, Some(<<"a", "-", "b">>), FALSE, None,
        Some(<< <<"a", "-", "b">> >>), Some(Mar10), Jan31),
    Row(4, 2, <<"a">>, None, FALSE, Some("low"), Some(<< <<"a">> >>),
        Some(Jan31), Jan31),
    Row(5, 1, <<"a", "b">>, Some(<<>>), FALSE, Some("medium"), None,
        Some(Jan30), Jan31),
    Row(6, 1, <<"b">>, None, FALSE, Some("low"),
        Some(<< <<"a", "b">>, <<"b">> >>), None, Jan31) }

FilterQueries ==
  { [AnyCriteria EXCEPT !.search = s, !.status = st, !.due_before = db, !.tag = tg] :
      s \in {None, Some(<<"A">>), Some(<<"_">>)},
      st \in {None, Some("pending")},
      db \in {None, Some(Jan31)},
      tg \in {None, Some(<<"a">>), Some(<<"A">>), Some(<<"a", "_", "b">>)} }
  \cup
  { [AnyCriteria EXCEPT !.status = Some("completed")],
    [AnyCriteria EXCEPT !.priority = Some("high")],
    [AnyCriteria EXCEPT !.priority = Some("high"), !.status = Some("pending")],
    [AnyCriteria EXCEPT !.priority = Some("high"), !.tag = Some(<<"a">>),
                        !.due_before = Some(Jan31)],
    [AnyCriteria EXCEPT !.due_after = Some(Jan31)],
    [AnyCriteria EXCEPT !.due_after = Some(Jan31), !.due_before = Some(Jan31)],
    [AnyCriteria EXCEPT !.due_after = Some(Jan31), !.priority = Some("high")] }

\* a query the Query(...) patterns reject
RejectedQueries == { [AnyCriteria EXCEPT !.priority = Some("HIGH")] }

SortQueries ==
  { [AnyCriteria EXCEPT !.sort_by = sb, !.sort_order = so] :
      sb \in {None, Some("created_at"), Some("due_date"), Some("priority"),
              Some("title")},
      so \in {None, Some("asc"), Some("desc")} }

InitQuery ==
  /\ todos \in {table \in SUBSET QueryRows : Cardinality(table) <= MaxRows}
  /\ now = Mar1
  /\ ret = NoRequest
  /\ sessions = NoSessions
  /\ users = {}

NextFilter ==
  \E u \in Users, c \in FilterQueries \cup RejectedQueries : get_todos(u, c)

SpecFilter == InitQuery /\ [][NextFilter]_vars

NextSort == \E u \in Users, c \in SortQueries : get_todos(u, c)

SpecSort == InitQuery /\ [][NextSort]_vars

\* case-insensitive substring
Contains(s, x) ==
  \E i \in 1..(Len(s) + 1) :
    /\ i + Len(x) - 1 <= Len(s)
    /\ LowerStr(SubSeq(s, i, i + Len(x) - 1)) = LowerStr(x)

\* whether a row satisfies the criteria a query supplies, criterion by
\* criterion as the filter contract defines them
Satisfies(t, c) ==
  /\ c.search # None =>
       \/ Contains(t.title, Just(c.search))
       \/ t.description # None /\ Contains(Just(t.description), Just(c.search))
  /\ c.status = Some("completed") => t.completed = Some(TRUE)
  /\ c.status = Some("pending") => t.completed = Some(FALSE)
  /\ c.priority # None => t.priority = c.priority
  /\ c.due_before # None =>
       t.due_date # None /\ ~DtLess(Just(c.due_before), Just(t.due_date))
  /\ c.due_after # None =>
       t.due_date # None /\ ~DtLess(Just(t.due_date), Just(c.due_after))
  /\ c.tag # None =>
       t.tags # None /\ \E i \in 1..Len(Just(t.tags)) : Just(t.tags)[i] = Just(c.tag)

Listed(r) == {r.body[i] : i \in 1..Len(r.body)}

\* C7: a list request returns exactly the rows of the requesting user
\* that satisfy every criterion it supplies.
C7_ListIsConjunction ==
  (ret.op = "get_todos" /\ ret.status = 200) =>
    /\ Len(ret.body) = Cardinality(Listed(ret))
    /\ Listed(ret) = {t \in todos : t.user_id = ret.user /\ Satisfies(t, ret.args)}

\* C8: the due date bounds are inclusive and a row without a due date
\* matches neither: no listed row violates a supplied bound, and a request
\* that supplies nothing but bounds lists exactly the user's rows whose due
\* date is set and lies within them.
C8_DueBoundsInclusive ==
  (ret.op = "get_todos" /\ ret.status = 200) =>
    LET within(t) ==
          /\ ret.args.due_before # None =>
               (t.due_date # None /\ ~DtLess(Just(ret.args.due_before), Just(t.due_date)))
          /\ ret.args.due_after # None =>
               (t.due_date # None /\ ~DtLess(Just(t.due_date), Just(ret.args.due_after)))
    IN /\ \A t \in Listed(ret) : within(t)
       /\ ( /\ ret.args.search = None
            /\ ret.args.status = None
            /\ ret.args.priority = None
            /\ ret.args.tag = None )
          => Listed(ret) = {t \in todos : t.user_id = ret.user /\ within(t)}

\* a request with only due_before lists a row due exactly at the bound
\* while the user also has a row without a due date
C8_Witness ==
  /\ ret.op = "get_todos"
  /\ ret.status = 200
  /\ ret.args = [AnyCriteria EXCEPT !.due_before = Some(Jan31)]
  /\ \E t \in Listed(ret) : t.due_date = Some(Jan31)
  /\ \E t \in todos : t.user_id = ret.user /\ t.due_date = None

\* C9: a request that supplies only a tag lists exactly the user's rows
\* whose tag list has that tag as an element.
C9_TagIsMembership ==
  ( /\ ret.op = "get_todos"
    /\ ret.status = 200
    /\ ret.args.tag # None
    /\ ret.args.search = None
    /\ ret.args.status = None
    /\ ret.args.priority = None
    /\ ret.args.due_before = None
    /\ ret.args.due_after = None )
  => Listed(ret) =
       {t \in todos : /\ t.user_id = ret.user
                      /\ t.tags # None
                      /\ Just(ret.args.tag) \in Range(Just(t.tags))}

\* the rank the priority order assigns
Rank(t) ==
  CASE t.priority = Some("high") -> 1
    [] t.priority = Some("medium") -> 2
    [] t.priority = Some("low") -> 3
    [] OTHER -> 4

\* C10: a list sorted by priority is in the order high, medium, low,
\* null, whether the direction is asc, desc or absent.
C10_PriorityOrder ==
  (ret.op = "get_todos" /\ ret.status = 200 /\ ret.args.sort_by = Some("priority")) =>
    \A i, j \in 1..Len(ret.body) : i < j => Rank(ret.body[i]) <= Rank(ret.body[j])

\* a descending priority sort that lists high, then medium, then null
C10_Witness ==
  /\ ret.op = "get_todos"
  /\ ret.status = 200
  /\ ret.args.sort_by = Some("priority")
  /\ ret.args.sort_order = Some("desc")
  /\ Len(ret.body) = 3
  /\ ret.body[1].priority = Some("high")
  /\ ret.body[2].priority = Some("medium")
  /\ ret.body[3].priority = None

\* C11: in a list sorted by due_date every row without a due date comes
\* after every row that has one, for the ascending and for the descending
\* direction (title and created_at are never null in a stored row).
C11_NullsLast ==
  (ret.op = "get_todos" /\ ret.status = 200 /\ ret.args.sort_by = Some("due_date")) =>
    \A i, j \in 1..Len(ret.body) :
      (i < j /\ ret.body[i].due_date = None) => ret.body[j].due_date = None

\* ------------------------------------------------------------------------
\* Specification SpecDueSoon: due-soon requests, at several times of the
\* day, against tables that hold some of the rows below
\* ------------------------------------------------------------------------
Feb29Late == <<2024, 2, 29, 84600>>

DueSoonTimes == {Feb29Late, Mar1}

DueSoonHours == {1, 2, 24}

DueRow(id, user_id, completed, due_date) ==
  [Row(id, user_id, <<"a">>, None, FALSE, Some("medium"), Some(<<>>), due_date, Jan31)
     EXCEPT !.completed = completed]

DueSoonRows ==
  { DueRow(1, 1, Some(FALSE), Some(<<2024, 3, 1, 3600>>)),
    DueRow(2, 1, Some(FALSE), Some(<<2024, 3, 1, 3601>>)),
    DueRow(3, 1, Some(FALSE), Some(<<2024, 2, 29, 86399>>)),
    DueRow(4, 1, Some(FALSE), Some(Mar1)),
    DueRow(5, 1, Some(FALSE), None),
    DueRow(6, 1, Some(TRUE), Some(<<2024, 3, 1, 3600>>)),
    DueRow(7, 2, Some(FALSE), Some(<<2024, 3, 1, 3600>>)),
    DueRow(8, 1, None, Some(<<2024, 3, 1, 1800>>)),
    DueRow(9, 1, Some(FALSE), Some(<<2024, 3, 2, 0>>)),
    DueRow(10, 1, Some(FALSE), Some(<<2024, 3, 2, 1>>)) }

InitDueSoon ==
  /\ todos \in {table \in SUBSET DueSoonRows : Cardinality(table) <= MaxRows}
  /\ now \in DueSoonTimes
  /\ ret = NoRequest
  /\ sessions = NoSessions
  /\ users = {}

NextDueSoon ==
  \/ \E u \in Users, h \in DueSoonHours : due_soon(u, h)
  \/ Tick(DueSoonTimes)

SpecDueSoon == InitDueSoon /\ [][NextDueSoon]_vars

\* seconds from the instant a to the instant b
SecondsBetween(a, b) == (Ordinal(b) - Ordinal(a)) * 86400 + b[4] - a[4]

\* C12: a due-soon request lists, once each, exactly the requesting
\* user's rows that are not completed and whose due date is set and lies
\* between the time of the request and that time plus the hours asked for,
\* both ends included; rows due a second outside either end, rows without
\* due date and completed rows are not listed.
C12_DueSoonWindow ==
  ret.op = "due_soon" =>
    /\ ret.status = 200
    /\ Len(ret.body) = Cardinality(Listed(ret))
    /\ Listed(ret) =
         {t \in todos :
            /\ t.user_id = ret.user
            /\ t.completed = Some(FALSE)
            /\ t.due_date # None
            /\ SecondsBetween(ret.at, Just(t.due_date)) >= 0
            /\ SecondsBetween(ret.at, Just(t.due_date)) <= ret.args.hours * 3600}

\* a request for one hour at T lists the row due at T + 1h and neither the
\* row due at T + 1h + 1s nor the row due at T - 1s
C12_Witness ==
  /\ ret.op = "due_soon"
  /\ ret.args.hours = 1
  /\ ret.at = Mar1
  /\ ret.user = 1
  /\ DueRow(1, 1, Some(FALSE), Some(<<2024, 3, 1, 3600>>)) \in Listed(ret)
  /\ DueRow(2, 1, Some(FALSE), Some(<<2024, 3, 1, 3601>>)) \in todos \ Listed(ret)
  /\ DueRow(3, 1, Some(FALSE), Some(<<2024, 2, 29, 86399>>)) \in todos \ Listed(ret)

\* ------------------------------------------------------------------------
\* Specification SpecUpdate: one user creates tasks and updates them, with
\* payloads that supply no field, one field or several, while time passes
\* ------------------------------------------------------------------------
EmptyPayload == [f \in {} |-> None]

PartialCreatePayloads == { [title |-> Some(<<"a">>)] }

PartialUpdatePayloads ==
  { EmptyPayload,
    [title |-> Some(<<"b">>), due_date |-> Some(Jan31)],
    [completed |-> Some(TRUE), priority |-> None],
    [title |-> None] }

UpdateTimes == {Jan30, Jan31}

NextUpdate ==
  \/ \E p \in PartialCreatePayloads : create_todo(1, p)
  \/ \E i \in Ids, p \in PartialUpdatePayloads : update_todo(1, i, p)
  \/ Tick(UpdateTimes)

SpecUpdate == InitOverdue /\ [][NextUpdate]_vars

\* the value a stored column holds for a supplied payload value
Stored(f, v) == IF f = "title" THEN Just(v) ELSE v

\* C13: an update that the service carries out changes exactly the fields
\* the payload supplies, to the supplied values, and leaves every field
\* the payload does not supply and every other row unchanged; a payload
\* that supplies no field changes nothing.
C13_PartialUpdate ==
  [][ (ret'.op = "update_todo" /\ ret'.status \in {200, 400}) =>
        /\ DOMAIN ret'.args = {} => todos' = todos
        /\ \A old \in get_by_id(todos, ret'.user, ret'.todo_id) :
             \E new \in todos' :
               /\ todos' \ {new} = todos \ {old}
               /\ \A f \in DOMAIN old :
                    IF f \in DOMAIN ret'.args
                      THEN new[f] = Stored(f, ret'.args[f])
                      ELSE new[f] = old[f] ]_vars

\* C13 as amended: an update whose payload passes validation and names an
\* owned row sets the supplied fields to the supplied values, leaves id,
\* owner, created_at and the fields not supplied as they were, and sets
\* updated_at to the time of the request when a supplied value differs from
\* the stored one; every other row is unchanged, and a payload that
\* supplies no field, or only the stored values, changes nothing.  A
\* payload that supplies title as null is refused by the commit (answer
\* 500) and changes nothing; so does a rejected payload or an unknown id.
C13_PartialUpdateExceptUpdatedAt ==
  [][ ret'.op = "update_todo" =>
        IF \/ ret'.status \in {404, 422}
           \/ DOMAIN ret'.args = {}
           \/ ("title" \in DOMAIN ret'.args /\ ret'.args.title = None)
          THEN /\ todos' = todos
               /\ ret'.status \in {404, 422} \/
                    (ret'.status = 500) =
                      ("title" \in DOMAIN ret'.args /\ ret'.args.title = None)
        ELSE \A old \in get_by_id(todos, ret'.user, ret'.todo_id) :
               \E new \in todos' :
                 /\ ret'.status \in {200, 400}
                 /\ ret'.body = <<new>>
                 /\ todos' \ {new} = todos \ {old}
                 /\ \A f \in DOMAIN old \ {"updated_at"} :
                      IF f \in DOMAIN ret'.args
                        THEN new[f] = Stored(f, ret'.args[f])
                        ELSE new[f] = old[f]
                 /\ new.updated_at =
                      IF \E f \in DOMAIN ret'.args : Stored(f, ret'.args[f]) # old[f]
                        THEN ret'.at ELSE old.updated_at ]_vars

\* an update a day after the creation: the title and the due date are the
\* supplied ones, the priority is the stored one, updated_at is the day of
\* the update, and the user's other row is as it was created
C13_Witness ==
  /\ ret.op = "update_todo"
  /\ ret.status = 200
  /\ ret.args = [title |-> Some(<<"b">>), due_date |-> Some(Jan31)]
  /\ ret.body[1] \in todos
  /\ ret.body[1].title = <<"b">>
  /\ ret.body[1].due_date = Some(Jan31)
  /\ ret.body[1].priority = Some("medium")
  /\ ret.body[1].created_at = Jan30
  /\ ret.body[1].updated_at = Jan31
  /\ \E t \in todos : t.id # ret.todo_id /\ t.title = <<"a">> /\ t.updated_at = t.created_at

\* ------------------------------------------------------------------------
\* Specification SpecOwner: two users create, update, complete and delete
\* tasks with request bodies that also carry the keys id and user_id
\* ------------------------------------------------------------------------
OwnerCreatePayloads ==
  { [title |-> Some(<<"a">>), id |-> Some(3), user_id |-> Some(2)],
    [title |-> Some(<<"a">>), id |-> Some(1), user_id |-> Some(1),
     due_date |-> Some(Mar10), recurrence |-> Some("daily")] }

OwnerUpdatePayloads ==
  { [title |-> Some(<<"b">>), id |-> Some(3), user_id |-> Some(2)] }

NextOwner ==
  \/ \E u \in Users, p \in OwnerCreatePayloads : create_todo(u, p)
  \/ \E u \in Users, i \in Ids, p \in OwnerUpdatePayloads : update_todo(u, i, p)
  \/ \E u \in Users, i \in Ids : delete_todo(u, i)
  \/ \E u \in Users, i \in Ids : mark_todo_complete(u, i)

SpecOwner == Init /\ [][NextOwner]_vars

\* C14: no request changes the id or the owner of a stored row: every row
\* stays under its id with its owner until a delete request of its owner
\* removes it, ids are unique, a created row belongs to the calling user
\* whatever the request body says, and a spawned next instance belongs to
\* the owner of the completed row.
C14_IdAndOwnerImmutable ==
  [][ /\ \A old \in todos : \A new \in todos' :
           new.id = old.id => new.user_id = old.user_id
      /\ Cardinality(RowIds(todos')) = Cardinality(todos')
      /\ ret'.op # "delete_todo" => RowIds(todos) \subseteq RowIds(todos')
      /\ ret'.op = "delete_todo" =>
           /\ RowIds(todos') \subseteq RowIds(todos)
           /\ \A old \in todos :
                old.id \notin RowIds(todos') =>
                  (old.id = ret'.todo_id /\ old.user_id = ret'.user)
      /\ \A new \in todos' :
           new.id \notin RowIds(todos) =>
             \/ ret'.op = "create_todo" /\ new.user_id = ret'.user
             \/ /\ ret'.op = "mark_todo_complete"
                /\ \E old \in todos :
                     /\ old.id = ret'.todo_id
                     /\ old.user_id = ret'.user
                     /\ new.user_id = old.user_id ]_vars

\* user 2 completed a recurring row, created with a body that names user 1
\* as the owner: the row and its next instance are stored as rows of user 2
C14_Witness ==
  /\ ret.op = "mark_todo_complete"
  /\ ret.user = 2
  /\ Len(ret.next) = 1
  /\ ret.body[1] \in todos
  /\ ret.body[1].user_id = 2
  /\ ret.next[1] \in todos
  /\ ret.next[1].user_id = 2
  /\ ret.next[1].id # ret.body[1].id

\* ------------------------------------------------------------------------
\* Specification SpecValidation: one user sends create and update requests
\* whose bodies pass validation or break one of its rules
\* ------------------------------------------------------------------------
ElevenTags ==
  << <<"a">>, <<"b">>, <<"A">>, <<"B">>, <<"a", "a">>, <<"a", "b">>, <<"b", "a">>,
     <<"b", "b">>, <<"a", "A">>, <<"a", "B">>, <<"b", "A">> >>

LongTag == [i \in 1..(TagMaxLen + 1) |-> "a"]

\* bodies without a title: TodoUpdate accepts the first, rejects the others
ValidationBodies ==
  { [tags |-> Some(<< <<"a">>, <<"a", "_", "b">> >>), priority |-> Some("low")],
    [priority |-> Some("urgent")],
    [description |-> Some(<<"b">>), priority |-> Some("HIGH")],
    [tags |-> Some(ElevenTags)],
    [tags |-> Some(<< <<"a">>, <<"a">> >>)],
    [tags |-> Some(<< LongTag >>)],
    [tags |-> Some(<< <<"a", "%">> >>)],
    [recurrence |-> Some("yearly"), due_date |-> Some(Mar10)],
    [recurrence |-> Some("weekly")],
    [recurrence |-> Some("monthly"), due_date |-> None, description |-> Some(<<"b">>)] }

ValidationUpdatePayloads ==
  ValidationBodies \cup {[title |-> Some(<<>>)], [title |-> Some(<<>>), completed |-> Some(TRUE)]}

ValidationCreatePayloads ==
  {[f \in DOMAIN b \cup {"title"} |-> IF f = "title" THEN Some(<<"a">>) ELSE b[f]] :
     b \in ValidationBodies}
  \cup {[title |-> Some(<<>>)], [description |-> Some(<<"b">>)]}

NextValidation ==
  \/ \E p \in ValidationCreatePayloads : create_todo(1, p)
  \/ \E i \in Ids, p \in ValidationUpdatePayloads : update_todo(1, i, p)

SpecValidation == Init /\ [][NextValidation]_vars

\* whether a request body breaks a validation rule: an empty title (for a
\* create request also a missing one), a priority outside low, medium,
\* high, more than ten tags, a tag twice, a tag of more than fifty
\* characters or with a character other than a letter, a digit, a space, a
\* hyphen or an underscore, a recurrence outside none, daily, weekly,
\* monthly, or a recurrence other than none in a body without a due date
BreaksRule(op, p) ==
  \/ op = "create_todo" /\ ("title" \notin DOMAIN p \/ p.title = None)
  \/ "title" \in DOMAIN p /\ p.title # None /\ Just(p.title) = <<>>
  \/ "priority" \in DOMAIN p /\ p.priority # None
       /\ Just(p.priority) \notin {"low", "medium", "high"}
  \/ "tags" \in DOMAIN p /\ p.tags # None /\
       LET l == Just(p.tags)
       IN \/ Len(l) > 10
          \/ \E i, j \in 1..Len(l) : i # j /\ l[i] = l[j]
          \/ \E i \in 1..Len(l) :
               \/ Len(l[i]) > 50
               \/ \E k \in 1..Len(l[i]) :
                    l[i][k] \notin {"a", "b", "A", "B", " ", "-", "_"}
  \/ "recurrence" \in DOMAIN p /\ p.recurrence # None /\
       \/ Just(p.recurrence) \notin {"none", "daily", "weekly", "monthly"}
       \/ /\ Just(p.recurrence) # "none"
          /\ ("due_date" \notin DOMAIN p \/ p.due_date = None)

\* C15: a create or update request whose body breaks a validation rule is
\* rejected (422) and writes nothing: the table after the request is the
\* table before it, also when other fields of the body are acceptable.
C15_RejectedBeforeWrite ==
  [][ ( /\ ret'.op \in {"create_todo", "update_todo"}
        /\ BreaksRule(ret'.op, ret'.args) )
      => (ret'.status = 422 /\ ret'.body = <<>> /\ todos' = todos) ]_vars

\* an update whose body holds the same tag twice is rejected while the
\* row it names is stored, with the tags an earlier update gave it
C15_Witness ==
  /\ ret.op = "update_todo"
  /\ ret.status = 422
  /\ ret.args = [tags |-> Some(<< <<"a">>, <<"a">> >>)]
  /\ \E t \in todos :
       /\ t.id = ret.todo_id
       /\ t.user_id = ret.user
       /\ t.tags = Some(<< <<"a">>, <<"a", "_", "b">> >>)

\* ------------------------------------------------------------------------
\* Specification SpecCommit: one user's create, update and delete requests
\* against a database whose commits may fail
\* ------------------------------------------------------------------------
CommitCreatePayloads ==
  { [title |-> Some(<<"a">>)],
    [title |-> Some(<<"a">>), tags |-> Some(<< <<"a">> >>), due_date |-> Some(Mar10),
     recurrence |-> Some("daily")] }

CommitUpdatePayloads ==
  { [title |-> Some(<<"b">>), completed |-> Some(TRUE)],
    [title |-> None, description |-> Some(<<"b">>)] }

NextCommit ==
  \/ \E p \in CommitCreatePayloads, ok \in BOOLEAN : create_todo_db(1, p, ok)
  \/ \E i \in Ids, p \in CommitUpdatePayloads, ok \in BOOLEAN :
       update_todo_db(1, i, p, ok)
  \/ \E i \in Ids, ok \in BOOLEAN : delete_todo_db(1, i, ok)

SpecCommit == Init /\ [][NextCommit]_vars

\* C16: when the commit of a create, update or delete request fails, the
\* table is exactly as it was before the request, no row added, changed in
\* any field or removed, and the request is answered with an error, not
\* with 200 or 201 and not with a task.
C16_FailedCommitLeavesState ==
  [][ ( /\ ret'.op \in {"create_todo", "update_todo", "delete_todo"}
        /\ ret'.commits # <<>>
        /\ ~ret'.commits[Len(ret'.commits)] )
      => ( /\ todos' = todos
           /\ ret'.status \notin {200, 201}
           /\ ret'.status >= 400
           /\ ret'.body = <<>> ) ]_vars

\* an update whose commit failed: answered 500, and the row it names is
\* stored with the title it had, not with the title of the payload
C16_Witness ==
  /\ ret.op = "update_todo"
  /\ ret.commits = <<FALSE>>
  /\ ret.status = 500
  /\ ret.args = [title |-> Some(<<"b">>), completed |-> Some(TRUE)]
  /\ \E t \in todos :
       /\ t.id = ret.todo_id
       /\ t.title = <<"a">>
       /\ t.completed = Some(FALSE)
       /\ t.recurrence = Some("daily")

\* ------------------------------------------------------------------------
\* Specification SpecTwoCommits: one user creates recurring and plain
\* tasks and completes them against a database whose commits may fail
\* ------------------------------------------------------------------------
Mar11 == <<2024, 3, 11, 28800>>

TwoCommitsCreatePayloads ==
  { [title |-> Some(<<"a">>)],
    [title |-> Some(<<"a">>), due_date |-> Some(Mar10), recurrence |-> Some("daily")] }

NextTwoCommits ==
  \/ \E p \in TwoCommitsCreatePayloads : create_todo(1, p)
  \/ \E i \in Ids, ok \in BOOLEAN, next_ok \in BOOLEAN :
       mark_todo_complete_db(1, i, ok, next_ok)
  \/ \E i \in Ids : get_todo(1, i)

SpecTwoCommits == Init /\ [][NextTwoCommits]_vars

\* C17: the completion and the insert of the next instance are two
\* commits.  When the first goes through and the second fails, the table
\* afterwards is the table before with the completed row in place of the
\* original, completed = true, and no row added; and a later completion of
\* that row, the next request or any other, finds it completed, writes
\* nothing and returns no next instance.
C17_SecondWriteFails ==
  [][ /\ ( /\ ret'.op = "mark_todo_complete"
           /\ ret'.commits = <<TRUE, FALSE>> )
         => \E old \in get_by_id(todos, ret'.user, ret'.todo_id) :
              /\ old.completed # Some(TRUE)
              /\ old.recurrence \in {Some("daily"), Some("weekly"), Some("monthly")}
              /\ old.due_date # None
              /\ todos' = (todos \ {old})
                            \cup {[old EXCEPT !.completed = Some(TRUE),
                                              !.updated_at = ret'.at]}
              /\ Cardinality(todos') = Cardinality(todos)
      /\ ( /\ ret'.op = "mark_todo_complete"
           /\ ret'.status # 404
           /\ \/ ret.op = "mark_todo_complete" /\ ret.commits = <<TRUE, FALSE>>
                   /\ ret.user = ret'.user /\ ret.todo_id = ret'.todo_id
              \/ \E old \in get_by_id(todos, ret'.user, ret'.todo_id) :
                   old.completed = Some(TRUE) )
         => ( /\ todos' = todos
              /\ ret'.commits = <<>>
              /\ ret'.next = <<>>
              /\ ret'.status = 200 ) ]_vars

\* a completion of a daily task answered with the completed task and no
\* next instance, while the table holds no task due on the following day:
\* the insert of an earlier completion failed and is not made up for
C17_Witness ==
  /\ ret.op = "mark_todo_complete"
  /\ ret.status = 200
  /\ ret.next = <<>>
  /\ ret.body[1] \in todos
  /\ ret.body[1].recurrence = Some("daily")
  /\ ret.body[1].due_date = Some(Mar10)
  /\ ret.body[1].completed = Some(TRUE)
  /\ \A t \in todos : t.due_date # Some(Mar11)

\* ------------------------------------------------------------------------
\* Specification SpecRace: one user creates a daily task and sends
\* completion requests that run at the same time
\* ------------------------------------------------------------------------
RaceCreatePayloads ==
  { [title |-> Some(<<"a">>), due_date |-> Some(Mar10), recurrence |-> Some("daily")] }

NextRace ==
  \/ \E p \in RaceCreatePayloads : create_todo(1, p)
  \/ \E r \in Requests, i \in Ids : mark_complete_read(r, 1, i)
  \/ \E r \in Requests : mark_complete_commit(r)
  \/ \E r \in Requests : mark_complete_insert(r)

SpecRace == Init /\ [][NextRace]_vars

\* the rows that are a next instance of a task
NextInstancesOf(t) ==
  {n \in todos :
     /\ n.id # t.id
     /\ n.user_id = t.user_id
     /\ n.title = t.title
     /\ n.recurrence = t.recurrence
     /\ n.due_date = Some(Advance(Just(t.due_date), Just(t.recurrence)))}

\* C19: completion requests for one recurring task that has a due date,
\* run at the same time with their reads, completion commits and inserts
\* in any order, create exactly one next instance of the task: never more
\* than one, and one once the task is completed and no request for it is
\* in progress.  (Stated for a task that is the only one with its due
\* date, so that every row due a day later is a next instance of it.)
C19_OneNextInstancePerTask ==
  \A t \in todos :
    ( /\ Recurs(t)
      /\ \A o \in todos : o.due_date = t.due_date => o = t )
    => /\ Cardinality(NextInstancesOf(t)) <= 1
       /\ ( /\ t.completed = Some(TRUE)
            /\ \A r \in Requests : sessions[r].pc = "idle" )
          => Cardinality(NextInstancesOf(t)) = 1

\* ------------------------------------------------------------------------
\* Specification SpecDomains: one user creates, updates and completes
\* tasks with payloads that supply priority, completed and recurrence as
\* values or as null
\* ------------------------------------------------------------------------
DomainsCreatePayloads ==
  { [title |-> Some(<<"a">>), priority |-> None, recurrence |-> None],
    [title |-> Some(<<"a">>), priority |-> Some("high"), due_date |-> Some(Mar10),
     recurrence |-> Some("weekly")] }

DomainsUpdatePayloads ==
  { [priority |-> None],
    [completed |-> None],
    [recurrence |-> None] }

NextDomains ==
  \/ \E p \in DomainsCreatePayloads : create_todo(1, p)
  \/ \E i \in Ids, p \in DomainsUpdatePayloads : update_todo(1, i, p)
  \/ \E i \in Ids : mark_todo_complete(1, i)

SpecDomains == Init /\ [][NextDomains]_vars

\* C20: every stored task has a priority among low, medium, high, a
\* completed flag that is true or false, and a recurrence among none,
\* daily, weekly, monthly; none of the three is null, whatever accepted
\* create, update and completion requests came before.
C20_ClosedDomains ==
  \A t \in todos :
    /\ t.priority \in {Some("low"), Some("medium"), Some("high")}
    /\ t.completed \in {Some(TRUE), Some(FALSE)}
    /\ t.recurrence \in {Some("none"), Some("daily"), Some("weekly"), Some("monthly")}

\* ------------------------------------------------------------------------
\* Specification SpecReopen: one user creates a daily task, sets its
\* completed flag through update, and completes it, one request at a time
\* ------------------------------------------------------------------------
ReopenCreatePayloads ==
  { [title |-> Some(<<"a">>), due_date |-> Some(Mar10), recurrence |-> Some("daily")] }

ReopenUpdatePayloads ==
  { [completed |-> Some(TRUE)],
    [completed |-> Some(FALSE)] }

\* one request slot: a completion request runs to its end before the next
\* completion request starts
NextReopen ==
  \/ \E p \in ReopenCreatePayloads : create_todo(1, p)
  \/ /\ sessions[1].pc = "idle"
     /\ \E i \in Ids, p \in ReopenUpdatePayloads : update_todo(1, i, p)
  \/ \E i \in Ids : mark_complete_read(1, 1, i)
  \/ mark_complete_commit(1)
  \/ mark_complete_insert(1)

SpecReopen == Init /\ [][NextReopen]_vars

\* rows of the second table whose id the first table does not hold
NewRows(before, after) == {n \in after : n.id \notin RowIds(before)}

\* C21 as claimed: an update request never adds a row, also when it sets
\* completed to true, and after every step each recurring task has at most
\* one next instance, also when update set its completed flag back to
\* false and it was completed again.  (Stated for a task that is the only
\* one with its due date, so that every row due a day later is a next
\* instance of it.)
C21_OneNextInstanceOverReopen ==
  [][ /\ ret'.op = "update_todo" => RowIds(todos') = RowIds(todos)
      /\ \A t \in todos' :
           ( /\ Recurs(t)
             /\ \A o \in todos' : o.due_date = t.due_date => o = t )
           => Cardinality({n \in todos' :
                             /\ n.id # t.id
                             /\ n.user_id = t.user_id
                             /\ n.title = t.title
                             /\ n.due_date = Some(Advance(Just(t.due_date),
                                                          Just(t.recurrence)))}) <= 1
    ]_vars

\* C21 amended: an update request never adds a row, also when it sets
\* completed to true; a row is added only by a create request or at the end
\* of a completion request, which adds one row; and a completion request
\* comes to its commit, and from there to its insert, only when it found
\* the task not completed, so that its commit is the transition from not
\* completed to completed.
C21_OneNextInstancePerCompletion ==
  [][ /\ ret'.op = "update_todo" => RowIds(todos') = RowIds(todos)
      /\ NewRows(todos, todos') # {}
         => /\ Cardinality(NewRows(todos, todos')) = 1
            /\ \/ ret'.op = "create_todo"
               \/ /\ ret'.op = "mark_todo_complete"
                  /\ ret'.next = <<Just(NewRows(todos, todos'))>>
                  /\ \E r \in Requests : /\ sessions[r].pc = "insert"
                                         /\ sessions'[r].pc = "idle"
      /\ \A r \in Requests :
           /\ ( sessions[r].pc = "idle" /\ sessions'[r].pc = "commit" )
              => \E t \in todos : /\ t.id = sessions'[r].todo_id
                                  /\ t.completed # Some(TRUE)
                                  /\ t \in todos'
           /\ ( sessions[r].pc # "insert" /\ sessions'[r].pc = "insert" )
              => /\ sessions[r].pc = "commit"
                 /\ \E t \in todos' : /\ t.id = sessions[r].todo_id
                                      /\ t.completed = Some(TRUE)
    ]_vars

\* a daily task completed, set back to not completed through update and
\* completed again: its second completion has just added a second next
\* instance
C21_Witness ==
  /\ ret.op = "mark_todo_complete"
  /\ ret.status = 200
  /\ Len(ret.next) = 1
  /\ \E t \in todos :
       /\ t.id = ret.todo_id
       /\ t.completed = Some(TRUE)
       /\ Recurs(t)
       /\ Cardinality({n \in todos :
                         /\ n.id # t.id
                         /\ n.due_date = Some(Advance(Just(t.due_date),
                                                      Just(t.recurrence)))}) = 2

\* ------------------------------------------------------------------------
\* Registration (api/routes/auth.py, schemas/user.py, models/user.py): an
\* email is [local, domain], two strings; a password is its length
\* ------------------------------------------------------------------------
PasswordMinLen == 8
PasswordMaxLen == 128

\* pydantic EmailStr: the syntax check of email_validator
EmailStrValid(email) == Len(email.local) > 0 /\ Len(email.domain) > 0

\* pydantic EmailStr: the validated value is the normalized address, the
\* domain in lower case and the local part as written
EmailStr(email) == [local |-> email.local, domain |-> LowerStr(email.domain)]

UserCreateValid(user_data) ==
  /\ EmailStrValid(user_data.email)
  /\ user_data.password >= PasswordMinLen
  /\ user_data.password <= PasswordMaxLen

\* register line 39: db.query(User).filter(User.email == ...).first()
existing_user(table, email) == {u \in table : u.email = email}

\* the users table without the unique index on email
UniqueViolation_never(table, email) == FALSE

\* User.email unique=True: the INSERT of a row whose email a committed row
\* holds raises IntegrityError
UniqueViolation(table, email) == \E u \in table : u.email = email

\* ret of a register request; user is the id of the response (0: none)
RegisterReply(user_data, id, status, commits) ==
  ReplyDb("register", id, 0, user_data, status, <<>>, <<>>, commits)

\* POST /api/v1/auth/register up to line 44: validation of the body, the
\* existence check and the 409 answer
register_query(r, user_data) ==
  /\ sessions[r].pc = "idle"
  /\ UNCHANGED <<todos, now, users>>
  /\ IF ~UserCreateValid(user_data)
       THEN /\ ret' = RegisterReply(user_data, 0, 422, <<>>)
            /\ UNCHANGED sessions
     ELSE IF existing_user(users, EmailStr(user_data.email)) # {}
       THEN /\ ret' = RegisterReply(user_data, 0, 409, <<>>)
            /\ UNCHANGED sessions
     ELSE /\ sessions' = [sessions EXCEPT ![r] =
                            [pc |-> "register", user |-> 0, todo_id |-> 0, todo |-> None,
                             user_data |-> user_data]]
          /\ UNCHANGED ret

\* register lines 46-83: the hash of the password (bcrypt.hashpw may
\* raise), the insert and its commit, and the two except clauses
register_commit(r, hash_ok, commit_ok) ==
  /\ sessions[r].pc = "register"
  /\ UNCHANGED <<todos, now>>
  /\ sessions' = [sessions EXCEPT ![r] = NoSession]
  /\ LET user_data == sessions[r].user_data
         email == EmailStr(user_data.email)
         new_user == [id |-> NewId(users), email |-> email,
                      created_at |-> now, updated_at |-> now]
     IN IF ~hash_ok
          THEN /\ ret' = RegisterReply(user_data, 0, 500, <<>>)
               /\ UNCHANGED users
        ELSE IF UniqueViolation(users, email) \/ ~commit_ok
          THEN /\ ret' = RegisterReply(user_data, 0, 500, <<FALSE>>)
               /\ UNCHANGED users
        ELSE /\ NewId(users) <= RaceMaxId
             /\ users' = Commit(users, users \cup {new_user}, commit_ok)
             /\ ret' = RegisterReply(user_data, new_user.id, 201, <<TRUE>>)

\* ------------------------------------------------------------------------
\* Specification SpecRegister: register requests for a few addresses, two
\* of them at a time with their steps in any order (register is a
\* coroutine that never awaits, so the two are requests that different
\* server processes serve on one database)
\* ------------------------------------------------------------------------
RegisterPayloads ==
  { [email |-> [local |-> <<"a">>, domain |-> <<"x">>], password |-> PasswordMinLen],
    [email |-> [local |-> <<"a">>, domain |-> <<"X">>], password |-> PasswordMinLen],
    [email |-> [local |-> <<"A">>, domain |-> <<"x">>], password |-> PasswordMaxLen],
    [email |-> [local |-> <<"a">>, domain |-> <<"x">>], password |-> PasswordMinLen - 1],
    [email |-> [local |-> <<"a">>, domain |-> <<>>], password |-> PasswordMinLen] }

NextRegister ==
  \/ \E r \in Requests, p \in RegisterPayloads : register_query(r, p)
  \/ \E r \in Requests, hash_ok \in BOOLEAN, commit_ok \in BOOLEAN :
       register_commit(r, hash_ok, commit_ok)

SpecRegister == Init /\ [][NextRegister]_vars

\* C22: no two users have the same email; a register request with a valid
\* body for an email that a user already has is answered 409 and stores no
\* user; and a request whose email was stored by another request between
\* its existence check and its commit is answered with an error status and
\* stores no user.
C22_UniqueEmail ==
  [][ /\ \A u1, u2 \in users' : u1.email = u2.email => u1 = u2
      /\ ( /\ sessions' = sessions
           /\ ret' # ret
           /\ ret'.op = "register"
           /\ UserCreateValid(ret'.args)
           /\ existing_user(users, EmailStr(ret'.args.email)) # {} )
         => /\ users' = users
            /\ ret'.status = 409
      /\ \A r \in Requests :
           ( /\ sessions[r].pc = "register"
             /\ sessions'[r].pc = "idle"
             /\ existing_user(users, EmailStr(sessions[r].user_data.email)) # {} )
           => /\ users' = users
              /\ ret'.op = "register"
              /\ ret'.args = sessions[r].user_data
              /\ ret'.status >= 400
    ]_vars

\* two requests for the same new address both passed the existence check;
\* one has stored the user and the other has just been answered after its
\* commit raised
C22_Witness ==
  /\ ret.op = "register"
  /\ ret.status = 500
  /\ ret.commits = <<FALSE>>
  /\ Cardinality(existing_user(users, EmailStr(ret.args.email))) = 1
  /\ \A r \in Requests : sessions[r].pc = "idle"

====
